---- MODULE Spec2Model ----
(***************************************************************************)
(* Room membership and broadcast fan-out of the chat relay (src/main.py).  *)
(* The asyncio event loop runs one coroutine at a time; a coroutine gives  *)
(* up control only at an await that really suspends (a store call, the     *)
(* reply oracle, sio.emit).  Each action below is the code one coroutine   *)
(* runs between two such suspension points.                                *)
(***************************************************************************)
EXTENDS Integers, Sequences, FiniteSets, TLC

\* ---------------------------------------------------------------- bounds
MaxTasks == 3                       \* client commands dispatched in one run
MaxCommands == 2                    \* the same, where every input is tried
MaxRoomId == 3                      \* largest room id the store hands out

TaskIds == 1..MaxTasks
Conns == {"s1", "s2", "s3"}         \* socket ids (sid) given out by the transport
NoSid == "-"
SidNumber(sid) == CHOOSE i \in 1..3 : <<"s1", "s2", "s3">>[i] = sid

\* ------------------------------------------------------------- constants
BOT_USER_EMAIL == "gemini-bot@example.com"
BOT_ROOM_ID == 2
FALLBACK_TEXT == <<"Sorry, I am unable to respond right now.">>
ORACLE_TEXT == <<"pong">>           \* a text the reply oracle returns

MSG_AUTH == "Authentication error. Please reconnect."
MSG_ROOM_NAME == "Room name cannot be empty"
MSG_CREATE_FAILED == "Could not create room"
MSG_JOIN_ROOM_ID == "A valid Room ID is required"
MSG_NOT_FOUND == "Room with ID not found."
MSG_HISTORY_ROOM_ID == "Valid room_id is required"

\* ------------------------------------------------------ values and text
\* A text is a sequence of characters.  A JSON value sent by the client is
\* absent/None ("none"), a string ("str") or an integer ("int").
Digits == <<"0", "1", "2", "3", "4", "5", "6", "7", "8", "9">>
NoneVal == [t |-> "none", s |-> <<>>, n |-> 0]
StrVal(s) == [t |-> "str", s |-> s, n |-> 0]
IntVal(n) == [t |-> "int", s |-> <<>>, n |-> n]

IsDigitChar(ch) == \E i \in 1..10 : Digits[i] = ch
DigitValue(ch) == (CHOOSE i \in 1..10 : Digits[i] = ch) - 1

RECURSIVE NatToStr(_)
NatToStr(n) == IF n < 10 THEN <<Digits[n + 1]>>
               ELSE NatToStr(n \div 10) \o <<Digits[(n % 10) + 1]>>

\* str(v)
PyStr(v) == IF v.t = "str" THEN v.s
            ELSE IF v.t = "int"
                 THEN (IF v.n < 0 THEN <<"-">> \o NatToStr(-v.n) ELSE NatToStr(v.n))
                 ELSE <<"None">>

\* bool(v)
Truthy(v) == \/ v.t = "str" /\ v.s # <<>>
             \/ v.t = "int" /\ v.n # 0

\* str.isdigit()
IsDigit(s) == s # <<>> /\ \A i \in 1..Len(s) : IsDigitChar(s[i])

\* int(s) of a digit string
RECURSIVE PyInt(_)
PyInt(s) == IF s = <<>> THEN 0
            ELSE 10 * PyInt(SubSeq(s, 1, Len(s) - 1)) + DigitValue(s[Len(s)])

\* str.strip()
RECURSIVE LStrip(_)
LStrip(s) == IF s # <<>> /\ s[1] = " " THEN LStrip(Tail(s)) ELSE s
RECURSIVE RStrip(_)
RStrip(s) == IF s # <<>> /\ s[Len(s)] = " " THEN RStrip(SubSeq(s, 1, Len(s) - 1)) ELSE s
Strip(s) == RStrip(LStrip(s))

\* (data or {}).get(key, "") for a text field
TextField(v) == IF v.t = "none" THEN <<>> ELSE v.s

\* not room_id_raw or not str(room_id_raw).isdigit()
BadRoomId(v) == ~Truthy(v) \/ ~IsDigit(PyStr(v))

\* ---------------------------------------------------------------- inputs
RawRoomIds == {NoneVal, StrVal(<<"1">>), StrVal(<<"2">>), StrVal(<<"3">>),
               StrVal(<<"x">>), IntVal(0)}
RawTexts == {NoneVal, StrVal(<<" ">>), StrVal(<<" ", "h", "i">>)}
NoSub == ""
\* auth of a connect: no token, a token that does not verify, a verified
\* payload without "sub", a verified payload with "sub"
Auths == {[token |-> "none", sub |-> NoSub], [token |-> "bad", sub |-> "u@example.com"],
          [token |-> "good", sub |-> NoSub], [token |-> "good", sub |-> "u@example.com"]}
\* how a store request ends: a 2xx answer, an error status (HTTPStatusError),
\* or no answer: a network error or a timeout (httpx.TransportError)
Outcomes == {"ok", "http_error", "transport_error"}
InitialRooms == {1, BOT_ROOM_ID}    \* rooms the store holds at start-up

\* --------------------------------------------------------------- records
NoMsg == [id |-> 0, room_id |-> 0, user_email |-> "", content |-> <<>>, is_bot |-> FALSE]
Event(ev, msg, room, name, rec, hist) ==
    [ev |-> ev, msg |-> msg, room_id |-> room, name |-> name, rec |-> rec, hist |-> hist]
ErrorEvent(msg) == Event("error", msg, 0, <<>>, NoMsg, <<>>)
NewMessage(rec) == Event("new_message", "", 0, <<>>, rec, <<>>)
RoomJoined(room) == Event("room_joined", "", room, <<>>, NoMsg, <<>>)
RoomCreated(room, name) == Event("room_created", "", room, name, NoMsg, <<>>)
PastMessages(hist) == Event("past_messages", "", 0, <<>>, NoMsg, hist)

\* a coroutine: where it is suspended (pc) and its local variables
Idle == [kind |-> "none", sid |-> NoSid, pc |-> "free", res |-> "",
         room_id |-> 0, email |-> "", content |-> <<>>, saved |-> NoMsg,
         it_gen |-> 0, it_size |-> 0, visited |-> {}, snap |-> {}]
\* a coroutine that ended: how it ended (res); its locals are gone
Finished(kind, sid, res) == [Idle EXCEPT !.pc = "done", !.res = res]

VARIABLES
    conn,            \* transport state of each sid: new, open, refused, closed
    session,         \* sio session of each sid: the user_email saved by connect
    room_members,    \* state.room_members: room id -> set of sids (keys present only)
    gen,             \* which set object a key of room_members holds (grows at del)
    tasks,           \* the event-handler coroutines, one per dispatched command
    bots,            \* the _handle_bot_reply task created by handler t
    parts,           \* the add_participant_db task created by handler t
    out,             \* events delivered to each sid, in order
    store_rooms,     \* store: ids of the rooms table
    store_messages,  \* store: the messages table, in insertion order
    store_calls      \* number of requests sent to the store

vars == <<conn, session, room_members, gen, tasks, bots, parts, out,
          store_rooms, store_messages, store_calls>>

Init ==
    /\ conn = [c \in Conns |-> "new"]
    /\ session = [c \in Conns |-> NoSub]
    /\ room_members = <<>>
    /\ gen = [r \in 1..MaxRoomId |-> 0]
    /\ tasks = [t \in TaskIds |-> Idle]
    /\ bots = [t \in TaskIds |-> Idle]
    /\ parts = [t \in TaskIds |-> "none"]
    /\ out = [c \in Conns |-> <<>>]
    /\ store_rooms = InitialRooms
    /\ store_messages = <<>>
    /\ store_calls = 0

\* ------------------------------------------------- Room Membership Table
\* state.room_members.get(room_id, set())
Members(rm, r) == IF r \in DOMAIN rm THEN rm[r] ELSE {}

\* (variant: a second add of the same sid takes it out again)
MembershipAddToggle(rm, r, sid) ==
    [k \in DOMAIN rm \cup {r} |->
        IF k # r THEN rm[k]
        ELSE IF sid \in Members(rm, r) THEN rm[r] \ {sid} ELSE Members(rm, r) \cup {sid}]

\* state.room_members[room_id].add(sid) on the defaultdict(set)
MembershipAdd(rm, r, sid) ==
    [k \in DOMAIN rm \cup {r} |-> IF k = r THEN Members(rm, r) \cup {sid} ELSE rm[k]]

\* (variant: the key of a room left empty is kept)
LeaveAllKeepsKey(rm, sid) == [k \in DOMAIN rm |-> rm[k] \ {sid}]

\* (variant: a room that holds sid is dropped with all its members)
LeaveAllDropsRoom(rm, sid) == [k \in {r \in DOMAIN rm : sid \notin rm[r]} |-> rm[k]]

\* (variant: one turn of the loop only, sid leaves the first room that holds it)
LeaveAllOneRoom(rm, sid) ==
    LET held == {r \in DOMAIN rm : sid \in rm[r]} IN
    IF held = {} THEN rm
    ELSE LET first == CHOOSE r \in held : \A q \in held : r <= q IN
         [k \in {r \in DOMAIN rm : ~(r = first /\ rm[r] \ {sid} = {})} |->
             IF k = first THEN rm[k] \ {sid} ELSE rm[k]]

\* the loop of disconnect: remove sid from every room that holds it and
\* delete the key of a room left empty
LeaveAll(rm, sid) ==
    [k \in {r \in DOMAIN rm : ~(sid \in rm[r] /\ rm[r] \ {sid} = {})} |-> rm[k] \ {sid}]

\* a key deleted from the dict drops its set object; a later add makes a new one
GenAfter(rm, rm2) ==
    [r \in DOMAIN gen |-> IF r \in DOMAIN rm /\ r \notin DOMAIN rm2 THEN gen[r] + 1 ELSE gen[r]]

\* sio.emit(event, payload, to=sid): nothing is delivered to a closed socket
Deliver(o, sid, e) == IF conn[sid] = "closed" THEN o ELSE [o EXCEPT ![sid] = Append(@, e)]

\* ------------------------------------------------------------ the store
IsTransportError(outcome) == outcome = "transport_error"
ExceptionOf(outcome) == "TransportError"

\* (variant: an empty answer is taken for a row)
FindRoomByIdDbAnyAnswer(outcome, rooms, r) ==
    IF IsTransportError(outcome) THEN "raise"
    ELSE IF outcome = "http_error" THEN "none" ELSE "found"

\* find_room_by_id_db: the row, None, or an exception that is not caught
FindRoomByIdDb(outcome, rooms, r) ==
    IF IsTransportError(outcome) THEN "raise"
    ELSE IF outcome = "http_error" THEN "none"
    ELSE IF r \in rooms THEN "found" ELSE "none"

\* create_room_db
NextRoomId(rooms) == 1 + Cardinality(rooms)
CreateRoomDb(outcome) ==
    IF IsTransportError(outcome) THEN "raise"
    ELSE IF outcome = "http_error" THEN "none" ELSE "created"

\* save_message_db: the stored row with the fields the store assigns
SavedRow(msgs, r, email, content, is_bot) ==
    [id |-> Len(msgs) + 1, room_id |-> r, user_email |-> email,
     content |-> content, is_bot |-> is_bot]
SaveMessageDb(outcome) ==
    IF IsTransportError(outcome) THEN "raise"
    ELSE IF outcome = "http_error" THEN "none" ELSE "saved"

\* get_messages_for_room_db: rows of the room in insertion (timestamp) order
RECURSIVE RoomHistory(_, _)
RoomHistory(msgs, r) ==
    IF msgs = <<>> THEN <<>>
    ELSE IF Head(msgs).room_id = r THEN <<Head(msgs)>> \o RoomHistory(Tail(msgs), r)
         ELSE RoomHistory(Tail(msgs), r)
GetMessagesForRoomDb(outcome) ==
    IF IsTransportError(outcome) THEN "raise"
    ELSE IF outcome = "http_error" THEN "none" ELSE "rows"

\* ------------------------------------------------------- session, connect
\* decode_access_token: the payload, or None when the token does not verify
DecodeAccessToken(auth) == IF auth.token = "good" THEN auth.sub ELSE NoSub

\* connect: False without a token, without a payload or without "sub"
ConnectAccepts(auth) == auth.token # "none" /\ DecodeAccessToken(auth) # NoSub

\* the transport hands out the sids in order
Connect(sid, auth) ==
    /\ conn[sid] = "new"
    /\ \A c \in Conns : SidNumber(c) < SidNumber(sid) => conn[c] # "new"
    /\ IF ConnectAccepts(auth)
       THEN /\ session' = [session EXCEPT ![sid] = DecodeAccessToken(auth)]
            /\ conn' = [conn EXCEPT ![sid] = "open"]
       ELSE /\ conn' = [conn EXCEPT ![sid] = "refused"]
            /\ UNCHANGED session
    /\ UNCHANGED <<room_members, gen, tasks, bots, parts, out,
                   store_rooms, store_messages, store_calls>>

\* disconnect: the membership loop runs without a suspension point; the
\* session is only read, for the log line
Disconnect(sid) ==
    /\ conn[sid] = "open"
    /\ conn' = [conn EXCEPT ![sid] = "closed"]
    /\ room_members' = LeaveAll(room_members, sid)
    /\ gen' = GenAfter(room_members, room_members')
    /\ UNCHANGED <<session, tasks, bots, parts, out,
                   store_rooms, store_messages, store_calls>>

\* ------------------------------------------------------------ dispatching
\* commands are dispatched in the order of the task ids
Free(t) == tasks[t].pc = "free" /\ \A u \in TaskIds : u < t => tasks[u].pc # "free"
CanSend(sid) == conn[sid] \in {"open", "refused"}

\* (variant: the session is not looked at)
HasSessionAlways(sess) == TRUE

\* _get_validated_session
HasSession(sess) == sess # NoSub

Suspended(kind, sid, pc, r, email, content) ==
    [Idle EXCEPT !.kind = kind, !.sid = sid, !.pc = pc,
                 !.room_id = r, !.email = email, !.content = content]

\* ------------------------------------------------------------ create_room
\* (variant: the name is not stripped)
CreateRoomCheckNoStrip(sess, name_raw) ==
    IF ~HasSession(sess) THEN "unauthenticated"
    ELSE IF TextField(name_raw) = <<>> THEN "invalid_input"
    ELSE "call"

\* the path of create_room up to its store call
CreateRoomCheck(sess, name_raw) ==
    IF ~HasSession(sess) THEN "unauthenticated"
    ELSE IF Strip(TextField(name_raw)) = <<>> THEN "invalid_input"
    ELSE "call"

CreateRoom(t, sid, name_raw) ==
    /\ Free(t) /\ CanSend(sid)
    /\ LET check == CreateRoomCheck(session[sid], name_raw) IN
       CASE check = "unauthenticated" ->
              /\ out' = Deliver(out, sid, ErrorEvent(MSG_AUTH))
              /\ tasks' = [tasks EXCEPT ![t] = Finished("create_room", sid, check)]
              /\ UNCHANGED store_calls
         [] check = "invalid_input" ->
              /\ out' = Deliver(out, sid, ErrorEvent(MSG_ROOM_NAME))
              /\ tasks' = [tasks EXCEPT ![t] = Finished("create_room", sid, check)]
              /\ UNCHANGED store_calls
         [] OTHER ->
              /\ tasks' = [tasks EXCEPT ![t] =
                     Suspended("create_room", sid, "create_room_db", 0, session[sid],
                               Strip(TextField(name_raw)))]
              /\ store_calls' = store_calls + 1
              /\ UNCHANGED out
    /\ UNCHANGED <<conn, session, room_members, gen, bots, parts,
                   store_rooms, store_messages>>

CreateRoomReply(t, outcome) ==
    /\ tasks[t].kind = "create_room" /\ tasks[t].pc = "create_room_db"
    /\ outcome = "ok" => NextRoomId(store_rooms) <= MaxRoomId
    /\ LET tk == tasks[t]
           result == CreateRoomDb(outcome) IN
       CASE result = "raise" ->
              /\ tasks' = [tasks EXCEPT ![t] = Finished(tk.kind, tk.sid, ExceptionOf(outcome))]
              /\ UNCHANGED <<out, store_rooms>>
         [] result = "none" ->
              /\ out' = Deliver(out, tk.sid, ErrorEvent(MSG_CREATE_FAILED))
              /\ tasks' = [tasks EXCEPT ![t] = Finished(tk.kind, tk.sid, "upstream_error")]
              /\ UNCHANGED store_rooms
         [] OTHER ->
              /\ store_rooms' = store_rooms \cup {NextRoomId(store_rooms)}
              /\ out' = Deliver(out, tk.sid, RoomCreated(NextRoomId(store_rooms), tk.content))
              /\ tasks' = [tasks EXCEPT ![t] = Finished(tk.kind, tk.sid, "created")]
    /\ UNCHANGED <<conn, session, room_members, gen, bots, parts,
                   store_messages, store_calls>>

\* -------------------------------------------------------------- join_room
\* the path of join_room up to its store call
JoinRoomCheck(sess, room_raw) ==
    IF ~HasSession(sess) THEN "unauthenticated"
    ELSE IF BadRoomId(room_raw) THEN "invalid_input"
    ELSE "call"

JoinRoom(t, sid, room_raw) ==
    /\ Free(t) /\ CanSend(sid)
    /\ LET check == JoinRoomCheck(session[sid], room_raw) IN
       CASE check = "unauthenticated" ->
              /\ out' = Deliver(out, sid, ErrorEvent(MSG_AUTH))
              /\ tasks' = [tasks EXCEPT ![t] = Finished("join_room", sid, check)]
              /\ UNCHANGED store_calls
         [] check = "invalid_input" ->
              /\ out' = Deliver(out, sid, ErrorEvent(MSG_JOIN_ROOM_ID))
              /\ tasks' = [tasks EXCEPT ![t] = Finished("join_room", sid, check)]
              /\ UNCHANGED store_calls
         [] OTHER ->
              /\ tasks' = [tasks EXCEPT ![t] =
                     Suspended("join_room", sid, "find_room_by_id_db",
                               PyInt(PyStr(room_raw)), session[sid], <<>>)]
              /\ store_calls' = store_calls + 1
              /\ UNCHANGED out
    /\ UNCHANGED <<conn, session, room_members, gen, bots, parts,
                   store_rooms, store_messages>>

\* (variant: the answer is not checked)
JoinRoomResultUnchecked(found) == IF found = "raise" THEN "raise" ELSE "join"

\* what join_room does with the answer of find_room_by_id_db
JoinRoomResult(found) ==
    IF found = "raise" THEN "raise" ELSE IF found = "none" THEN "not_found" ELSE "join"

JoinRoomReply(t, outcome) ==
    /\ tasks[t].kind = "join_room" /\ tasks[t].pc = "find_room_by_id_db"
    /\ LET tk == tasks[t]
           result == JoinRoomResult(FindRoomByIdDb(outcome, store_rooms, tk.room_id)) IN
       CASE result = "raise" ->
              /\ tasks' = [tasks EXCEPT ![t] = Finished(tk.kind, tk.sid, ExceptionOf(outcome))]
              /\ UNCHANGED <<out, room_members, parts, store_calls>>
         [] result = "not_found" ->
              /\ out' = Deliver(out, tk.sid, ErrorEvent(MSG_NOT_FOUND))
              /\ tasks' = [tasks EXCEPT ![t] = Finished(tk.kind, tk.sid, "not_found")]
              /\ UNCHANGED <<room_members, parts, store_calls>>
         [] OTHER ->
              /\ room_members' = MembershipAdd(room_members, tk.room_id, tk.sid)
              /\ parts' = [parts EXCEPT ![t] = "pending"]
              /\ store_calls' = store_calls + 1
              /\ out' = Deliver(out, tk.sid, RoomJoined(tk.room_id))
              /\ tasks' = [tasks EXCEPT ![t] = Finished(tk.kind, tk.sid, "joined")]
    /\ UNCHANGED <<conn, session, gen, bots, store_rooms, store_messages>>

\* add_participant_db: an error status is not checked and a transport error
\* is not caught; either way the detached task is over
AddParticipantReply(t, outcome) ==
    /\ parts[t] = "pending"
    /\ parts' = [parts EXCEPT ![t] = "done"]
    /\ UNCHANGED <<conn, session, room_members, gen, tasks, bots, out,
                   store_rooms, store_messages, store_calls>>

\* ------------------------------------------------ the broadcast fan-out
\* for member_sid in state.room_members.get(room_id, set()): the loop walks
\* the live set object of the room, and every emit inside it suspends.
\* The set object the iterator of task tk walks: a set deleted from the dict
\* was empty when it was deleted and stays empty
LiveSet(tk) ==
    IF tk.room_id \in DOMAIN room_members /\ gen[tk.room_id] = tk.it_gen
    THEN room_members[tk.room_id] ELSE {}

\* the iterator state at the for statement
IterStart(tk, saved) ==
    [tk EXCEPT !.pc = "emit", !.saved = saved, !.it_gen = gen[tk.room_id],
               !.it_size = Cardinality(Members(room_members, tk.room_id)),
               !.snap = Members(room_members, tk.room_id), !.visited = {}]

\* next() of a set iterator: RuntimeError when the size of the set differs
\* from the size at the start; otherwise the next entry after the cursor.
\* The order is the hash order, so any member not yet visited may come next;
\* a member added after the start lies before or after the cursor.
IterNext(tk) ==
    LET cur == LiveSet(tk)
        cand == cur \ tk.visited IN
    IF Cardinality(cur) # tk.it_size THEN {[step |-> "raise", to |-> NoSid]}
    ELSE {[step |-> "emit", to |-> m] : m \in cand}
         \cup (IF cand \cap tk.snap = {} THEN {[step |-> "stop", to |-> NoSid]} ELSE {})

\* (variant: the payload is built from what the client sent)
BroadcastPayloadFromInput(saved, room_id, email, content) ==
    [id |-> 0, room_id |-> room_id, user_email |-> email, content |-> content, is_bot |-> FALSE]

\* the payload of the new_message event of a handler
BroadcastPayload(saved, room_id, email, content) == saved

\* asyncio.create_task(_handle_bot_reply(room_id, content)) after the loop
SpawnsBot(room_id) == room_id = BOT_ROOM_ID
BotTask(room_id, content) ==
    [Idle EXCEPT !.kind = "bot", !.pc = "get_gemini_response",
                 !.room_id = room_id, !.content = content]

\* (variant: the handler awaits the auto-reply it started)
HandlerAwaitsBot(tk) ==
    IF SpawnsBot(tk.room_id) THEN [tk EXCEPT !.pc = "await_bot"]
    ELSE Finished(tk.kind, tk.sid, "sent")

\* the handler after its loop: create_task returns at once and the handler
\* returns
HandlerAfterLoop(tk) == Finished(tk.kind, tk.sid, "sent")

\* one turn of the loop of send_message for the iterator state tk
SendFanout(t, tk) ==
    \E nx \in IterNext(tk) :
       CASE nx.step = "raise" ->
              /\ tasks' = [tasks EXCEPT ![t] = Finished(tk.kind, tk.sid, "RuntimeError")]
              /\ UNCHANGED <<out, bots>>
         [] nx.step = "emit" ->
              /\ out' = Deliver(out, nx.to,
                     NewMessage(BroadcastPayload(tk.saved, tk.room_id, tk.email, tk.content)))
              /\ tasks' = [tasks EXCEPT ![t] = [tk EXCEPT !.visited = @ \cup {nx.to}]]
              /\ UNCHANGED bots
         [] OTHER ->
              /\ tasks' = [tasks EXCEPT ![t] = HandlerAfterLoop(tk)]
              /\ bots' = IF SpawnsBot(tk.room_id)
                         THEN [bots EXCEPT ![t] = BotTask(tk.room_id, tk.content)]
                         ELSE bots
              /\ UNCHANGED out

\* ----------------------------------------------------------- send_message
\* (variant: the content is not stripped)
SendMessageCheckNoStrip(sess, room_raw, content_raw) ==
    IF ~HasSession(sess) THEN "unauthenticated"
    ELSE IF BadRoomId(room_raw) \/ TextField(content_raw) = <<>> THEN "dropped"
    ELSE "call"

\* the path of send_message up to its store call
SendMessageCheck(sess, room_raw, content_raw) ==
    IF ~HasSession(sess) THEN "unauthenticated"
    ELSE IF BadRoomId(room_raw) \/ Strip(TextField(content_raw)) = <<>> THEN "dropped"
    ELSE "call"

SendMessage(t, sid, room_raw, content_raw) ==
    /\ Free(t) /\ CanSend(sid)
    /\ LET check == SendMessageCheck(session[sid], room_raw, content_raw) IN
       CASE check = "unauthenticated" ->
              /\ out' = Deliver(out, sid, ErrorEvent(MSG_AUTH))
              /\ tasks' = [tasks EXCEPT ![t] = Finished("send_message", sid, check)]
              /\ UNCHANGED store_calls
         [] check = "dropped" ->
              /\ tasks' = [tasks EXCEPT ![t] = Finished("send_message", sid, check)]
              /\ UNCHANGED <<out, store_calls>>
         [] OTHER ->
              /\ tasks' = [tasks EXCEPT ![t] =
                     Suspended("send_message", sid, "save_message_db",
                               PyInt(PyStr(room_raw)), session[sid],
                               Strip(TextField(content_raw)))]
              /\ store_calls' = store_calls + 1
              /\ UNCHANGED out
    /\ UNCHANGED <<conn, session, room_members, gen, bots, parts,
                   store_rooms, store_messages>>

\* the answer of save_message_db arrives; if a row came back the loop starts
\* and runs to its first emit
SendMessageReply(t, outcome) ==
    /\ tasks[t].kind = "send_message" /\ tasks[t].pc = "save_message_db"
    /\ LET tk == tasks[t]
           result == SaveMessageDb(outcome)
           row == SavedRow(store_messages, tk.room_id, tk.email, tk.content, FALSE) IN
       CASE result = "raise" ->
              /\ tasks' = [tasks EXCEPT ![t] = Finished(tk.kind, tk.sid, ExceptionOf(outcome))]
              /\ UNCHANGED <<out, bots, store_messages>>
         [] result = "none" ->
              /\ tasks' = [tasks EXCEPT ![t] = Finished(tk.kind, tk.sid, "not_saved")]
              /\ UNCHANGED <<out, bots, store_messages>>
         [] OTHER ->
              /\ store_messages' = Append(store_messages, row)
              /\ SendFanout(t, IterStart(tk, row))
    /\ UNCHANGED <<conn, session, room_members, gen, parts, store_rooms, store_calls>>

\* the emit to one member returns and the loop goes on
SendMessageNext(t) ==
    /\ tasks[t].kind = "send_message" /\ tasks[t].pc = "emit"
    /\ SendFanout(t, tasks[t])
    /\ UNCHANGED <<conn, session, room_members, gen, parts,
                   store_rooms, store_messages, store_calls>>

\* ------------------------------------------------------ _handle_bot_reply
\* (variant: an error of the oracle gives an empty text)
GetGeminiResponseEmpty(ok) == IF ok THEN ORACLE_TEXT ELSE <<>>

\* get_gemini_response: the text of the oracle, or the fixed text on any error
GetGeminiResponse(ok) == IF ok THEN ORACLE_TEXT ELSE FALLBACK_TEXT

BotOracleReply(t, ok) ==
    /\ bots[t].pc = "get_gemini_response"
    /\ bots' = [bots EXCEPT ![t] =
           [@ EXCEPT !.pc = "save_message_db", !.content = GetGeminiResponse(ok)]]
    /\ store_calls' = store_calls + 1
    /\ UNCHANGED <<conn, session, room_members, gen, tasks, parts, out,
                   store_rooms, store_messages>>

\* one turn of the loop of _handle_bot_reply
BotFanout(t, tk) ==
    \E nx \in IterNext(tk) :
       CASE nx.step = "raise" ->
              /\ bots' = [bots EXCEPT ![t] = Finished(tk.kind, tk.sid, "RuntimeError")]
              /\ UNCHANGED out
         [] nx.step = "emit" ->
              /\ out' = Deliver(out, nx.to, NewMessage(tk.saved))
              /\ bots' = [bots EXCEPT ![t] = [tk EXCEPT !.visited = @ \cup {nx.to}]]
         [] OTHER ->
              /\ bots' = [bots EXCEPT ![t] = Finished(tk.kind, tk.sid, "replied")]
              /\ UNCHANGED out

BotSaveReply(t, outcome) ==
    /\ bots[t].pc = "save_message_db"
    /\ LET tk == bots[t]
           result == SaveMessageDb(outcome)
           row == SavedRow(store_messages, tk.room_id, BOT_USER_EMAIL, tk.content, TRUE) IN
       CASE result = "raise" ->
              /\ bots' = [bots EXCEPT ![t] = Finished(tk.kind, tk.sid, ExceptionOf(outcome))]
              /\ UNCHANGED <<out, store_messages>>
         [] result = "none" ->
              /\ bots' = [bots EXCEPT ![t] = Finished(tk.kind, tk.sid, "not_saved")]
              /\ UNCHANGED <<out, store_messages>>
         [] OTHER ->
              /\ store_messages' = Append(store_messages, row)
              /\ BotFanout(t, IterStart(tk, row))
    /\ UNCHANGED <<conn, session, room_members, gen, tasks, parts,
                   store_rooms, store_calls>>

BotNext(t) ==
    /\ bots[t].pc = "emit"
    /\ BotFanout(t, bots[t])
    /\ UNCHANGED <<conn, session, room_members, gen, tasks, parts,
                   store_rooms, store_messages, store_calls>>

\* -------------------------------------------------- request_past_messages
RequestPastMessagesCheck(sess, room_raw) ==
    IF ~HasSession(sess) THEN "unauthenticated"
    ELSE IF BadRoomId(room_raw) THEN "invalid_input"
    ELSE "call"

RequestPastMessages(t, sid, room_raw) ==
    /\ Free(t) /\ CanSend(sid)
    /\ LET check == RequestPastMessagesCheck(session[sid], room_raw) IN
       CASE check = "unauthenticated" ->
              /\ out' = Deliver(out, sid, ErrorEvent(MSG_AUTH))
              /\ tasks' = [tasks EXCEPT ![t] = Finished("request_past_messages", sid, check)]
              /\ UNCHANGED store_calls
         [] check = "invalid_input" ->
              /\ out' = Deliver(out, sid, ErrorEvent(MSG_HISTORY_ROOM_ID))
              /\ tasks' = [tasks EXCEPT ![t] = Finished("request_past_messages", sid, check)]
              /\ UNCHANGED store_calls
         [] OTHER ->
              /\ tasks' = [tasks EXCEPT ![t] =
                     Suspended("request_past_messages", sid, "get_messages_for_room_db",
                               PyInt(PyStr(room_raw)), session[sid], <<>>)]
              /\ store_calls' = store_calls + 1
              /\ UNCHANGED out
    /\ UNCHANGED <<conn, session, room_members, gen, bots, parts,
                   store_rooms, store_messages>>

RequestPastMessagesReply(t, outcome) ==
    /\ tasks[t].kind = "request_past_messages" /\ tasks[t].pc = "get_messages_for_room_db"
    /\ LET tk == tasks[t]
           result == GetMessagesForRoomDb(outcome) IN
       CASE result = "raise" ->
              /\ tasks' = [tasks EXCEPT ![t] = Finished(tk.kind, tk.sid, ExceptionOf(outcome))]
              /\ UNCHANGED out
         [] result = "none" ->
              /\ tasks' = [tasks EXCEPT ![t] = Finished(tk.kind, tk.sid, "no_response")]
              /\ UNCHANGED out
         [] OTHER ->
              /\ out' = Deliver(out, tk.sid, PastMessages(RoomHistory(store_messages, tk.room_id)))
              /\ tasks' = [tasks EXCEPT ![t] = Finished(tk.kind, tk.sid, "history")]
    /\ UNCHANGED <<conn, session, room_members, gen, bots, parts,
                   store_rooms, store_messages, store_calls>>

\* ------------------------------------------------------- the whole system
\* connections, membership, messages and the auto-reply, for sids C that
\* connect with an auth of A and send room ids of R and texts of T, a store
\* that answers with an outcome of O, and at most L commands
Chat(C, A, R, T, O, L) ==
    \/ \E sid \in C, auth \in A : Connect(sid, auth)
    \/ \E sid \in C : Disconnect(sid)
    \/ \E t \in 1..L, sid \in C, r \in R : JoinRoom(t, sid, r)
    \/ \E t \in TaskIds, o \in O : JoinRoomReply(t, o)
    \/ \E t \in TaskIds, o \in O : AddParticipantReply(t, o)
    \/ \E t \in 1..L, sid \in C, r \in R, c \in T : SendMessage(t, sid, r, c)
    \/ \E t \in TaskIds, o \in O : SendMessageReply(t, o)
    \/ \E t \in TaskIds : SendMessageNext(t)
    \/ \E t \in TaskIds, ok \in BOOLEAN : BotOracleReply(t, ok)
    \/ \E t \in TaskIds, o \in O : BotSaveReply(t, o)
    \/ \E t \in TaskIds : BotNext(t)

\* the commands that only talk to the store
Lookups(C, R, T, O, L) ==
    \/ \E t \in 1..L, sid \in C, name \in T : CreateRoom(t, sid, name)
    \/ \E t \in TaskIds, o \in O : CreateRoomReply(t, o)
    \/ \E t \in 1..L, sid \in C, r \in R : RequestPastMessages(t, sid, r)
    \/ \E t \in TaskIds, o \in O : RequestPastMessagesReply(t, o)

Next ==
    \/ Chat(Conns, Auths, RawRoomIds, RawTexts, Outcomes, MaxTasks)
    \/ Lookups(Conns, RawRoomIds, RawTexts, Outcomes, MaxTasks)

Spec == Init /\ [][Next]_vars

\* Fan-out under concurrency: three admitted connections join the bot room,
\* send well-formed messages to it and disconnect, and the store answers
\* every request.
GoodAuth == {a \in Auths : ConnectAccepts(a)}
GoodRoomIds == {StrVal(<<"2">>)}
GoodTexts == {StrVal(<<" ", "h", "i">>)}
NextFanout == Chat(Conns, GoodAuth, GoodRoomIds, GoodTexts, {"ok"}, MaxTasks)
SpecFanout == Init /\ [][NextFanout]_vars

\* Command handling: two connections, every input and every store outcome.
TwoConns == {"s1", "s2"}
NextCommands ==
    \/ Chat(TwoConns, Auths, RawRoomIds, RawTexts, Outcomes, MaxCommands)
    \/ Lookups(TwoConns, RawRoomIds, RawTexts, Outcomes, MaxCommands)
SpecCommands == Init /\ [][NextCommands]_vars

\* the same without create_room and request_past_messages
NextChat == Chat(TwoConns, Auths, RawRoomIds, RawTexts, Outcomes, MaxCommands)
SpecChat == Init /\ [][NextChat]_vars

\* create_room and request_past_messages alone
NextLookups ==
    \/ \E sid \in TwoConns, auth \in Auths : Connect(sid, auth)
    \/ \E sid \in TwoConns : Disconnect(sid)
    \/ Lookups(TwoConns, RawRoomIds, RawTexts, Outcomes, MaxCommands)
SpecLookups == Init /\ [][NextLookups]_vars

\* Sessions: one connection, admitted or refused, issuing every command with
\* every input and every store outcome.
OneConn == {"s1"}
NextSessions ==
    \/ Chat(OneConn, Auths, RawRoomIds, RawTexts, Outcomes, MaxCommands)
    \/ Lookups(OneConn, RawRoomIds, RawTexts, Outcomes, MaxCommands)
SpecSessions == Init /\ [][NextSessions]_vars

\* ================================================================ claims
\* events of kind new_message for the stored row id in what sid c received
Received(c, id) ==
    Cardinality({i \in 1..Len(out[c]) : out[c][i].ev = "new_message" /\ out[c][i].rec.id = id})
HasEvent(c, e) == \E i \in 1..Len(out[c]) : out[c][i] = e
InSomeRoom(c) == \E r \in DOMAIN room_members : c \in room_members[r]
\* out after one event for sid c and nothing for anybody else
OutPlus(c, e) == [out EXCEPT ![c] = Append(@, e)]
\* a text field that is absent, empty or all whitespace
Blank(v) == v.t = "none" \/ \A i \in 1..Len(v.s) : v.s[i] = " "
\* a room id that is absent, empty, not made of digits only, or not positive
Malformed(v) ==
    \/ v.t = "none"
    \/ v.t = "str" /\ (v.s = <<>> \/ \E i \in 1..Len(v.s) : v.s[i] \notin {Digits[d] : d \in 1..10})
    \/ v.t = "int" /\ v.n <= 0

\* C1: once the disconnect handler of a connection has run, the connection
\* is a member of no room, whatever handlers of it were suspended before.
\* Refuted: a join_room suspended at the store lookup adds the sid afterwards.
NoLeakedMembership == \A c \in Conns : conn[c] = "closed" => ~InSomeRoom(c)

\* C2: when a broadcast loop is over, every connection that was a member of
\* the room when the loop started (and is still connected) has received the
\* message once, and no other connection has received it.
\* Refuted: the loop walks the live set and ends early when its size changes.
FanoutOver(tk, tk2) == tk.pc = "emit" /\ tk2.pc = "done"
DeliveredToSnapshot(tk) ==
    \A c \in Conns : conn[c] # "closed" =>
        Received(c, tk.saved.id) = (IF c \in tk.snap THEN 1 ELSE 0)
BroadcastReachesSnapshot ==
    [][\A t \in TaskIds :
          /\ FanoutOver(tasks[t], tasks'[t]) => DeliveredToSnapshot(tasks[t])
          /\ FanoutOver(bots[t], bots'[t]) => DeliveredToSnapshot(bots[t])]_vars

\* C3: no broadcast loop ends with an error because the member set of its
\* room changed under it.
\* Refuted: next() of the set iterator raises RuntimeError.
FanoutNeverRaises ==
    \A t \in TaskIds : tasks[t].res # "RuntimeError" /\ bots[t].res # "RuntimeError"

\* C4: every room key of the Membership Table maps to a non-empty set.
NoEmptyRoom == \A r \in DOMAIN room_members : room_members[r] # {}
\* the last member of a room has left and the key is gone
RoomPruned == \E r \in DOMAIN gen : gen[r] > 0 /\ r \notin DOMAIN room_members

\* C5: a sid enters a member set only in the step in which a join_room of
\* that sid for that room, started with a session, gets the row of the room
\* from the store.
OnlyJoinAdds ==
    [][\A r \in DOMAIN room_members' : \A c \in room_members'[r] \ Members(room_members, r) :
          \E t \in TaskIds :
             /\ JoinRoomReply(t, "ok")
             /\ tasks[t].sid = c /\ tasks[t].room_id = r
             /\ HasSession(tasks[t].email)
             /\ r \in store_rooms]_vars
SomeoneJoined == \E c \in Conns : InSomeRoom(c)

\* C6: a join_room whose room the store does not hold sends the not-found
\* error to the requester alone, leaves the Membership Table as it is and
\* creates no add_participant_db task.
JoinOfMissingRoom ==
    [][\A t \in TaskIds :
          (JoinRoomReply(t, "ok") /\ tasks[t].room_id \notin store_rooms) =>
             /\ room_members' = room_members
             /\ parts' = parts
             /\ out' = IF conn[tasks[t].sid] = "closed" THEN out
                       ELSE OutPlus(tasks[t].sid, ErrorEvent(MSG_NOT_FOUND))]_vars
NotFoundSent == \E c \in Conns : HasEvent(c, ErrorEvent(MSG_NOT_FOUND))

\* C7: a join_room that succeeds for a sid already in the room leaves every
\* member set as it was and is answered with room_joined.
RejoinChangesNothing ==
    [][\A t \in TaskIds :
          (/\ JoinRoomReply(t, "ok")
           /\ tasks[t].room_id \in store_rooms
           /\ tasks[t].sid \in Members(room_members, tasks[t].room_id)) =>
             /\ room_members' = room_members
             /\ out' = IF conn[tasks[t].sid] = "closed" THEN out
                       ELSE OutPlus(tasks[t].sid, RoomJoined(tasks[t].room_id))]_vars
\* a connected sid was told twice that it joined the same room
JoinedTwice ==
    \E c \in Conns, r \in DOMAIN room_members :
       /\ conn[c] = "open" /\ c \in room_members[r]
       /\ Cardinality({i \in 1..Len(out[c]) : out[c][i] = RoomJoined(r)}) >= 2

\* C8: a send_message of a connection with a session whose content is blank
\* or whose room id is malformed sends nothing to the store, delivers
\* nothing (no message, no error) and starts no auto-reply.
BlankSendIsDropped ==
    [][\A t \in {u \in TaskIds : Free(u) /\ tasks'[u].pc # "free"} :
       \A sid \in Conns, r \in RawRoomIds, c \in RawTexts :
          (/\ SendMessage(t, sid, r, c)
           /\ HasSession(session[sid])
           /\ (Blank(c) \/ Malformed(r))) =>
             /\ store_calls' = store_calls
             /\ store_messages' = store_messages
             /\ out' = out
             /\ bots' = bots
             /\ tasks'[t].pc = "done"]_vars
SendDropped == \E t \in TaskIds : tasks[t].res = "dropped"

\* C9: every new_message a connection received carries a row of the messages
\* table, and a send_message whose save failed delivers nothing and starts
\* no auto-reply.
IsStoredRow(rec) ==
    rec.id \in 1..Len(store_messages) /\ store_messages[rec.id] = rec
OnlyStoredRowsDelivered ==
    \A c \in Conns : \A i \in 1..Len(out[c]) :
       out[c][i].ev = "new_message" => IsStoredRow(out[c][i].rec)
FailedSaveIsSilent ==
    \A t \in TaskIds, o \in Outcomes \ {"ok"} :
       SendMessageReply(t, o) => out' = out /\ bots' = bots /\ tasks'[t].pc = "done"
NoUnpersistedBroadcast == []OnlyStoredRowsDelivered /\ [][FailedSaveIsSilent]_vars
\* a user message and a bot reply have been delivered
MessagesDelivered ==
    \E c \in Conns : \E i, j \in 1..Len(out[c]) :
       /\ out[c][i].ev = "new_message" /\ ~out[c][i].rec.is_bot
       /\ out[c][j].ev = "new_message" /\ out[c][j].rec.is_bot

\* C10: a create_room of a connection with a session whose name is blank
\* sends the empty-name error to the requester alone and no request to the
\* store.
BlankNameIsRejected ==
    [][\A t \in {u \in TaskIds : Free(u) /\ tasks'[u].pc # "free"} :
       \A sid \in Conns, name \in RawTexts :
          (CreateRoom(t, sid, name) /\ HasSession(session[sid]) /\ Blank(name)) =>
             /\ store_calls' = store_calls
             /\ out' = OutPlus(sid, ErrorEvent(MSG_ROOM_NAME))
             /\ tasks'[t].pc = "done"]_vars
EmptyNameRejected == \E c \in Conns : HasEvent(c, ErrorEvent(MSG_ROOM_NAME))

\* C11: a create_room whose store call fails, with an error status or with
\* no answer at all, sends the could-not-create error to the requester and
\* ends without an exception; one that succeeds sends room_created to the
\* requester alone.
\* Refuted: create_room_db catches httpx.HTTPStatusError only, so a network
\* error or a timeout ends the handler with the exception and no event.
CreateRoomAnswers ==
    [][\A t \in TaskIds, o \in Outcomes :
          CreateRoomReply(t, o) =>
             /\ tasks'[t].res # "TransportError"
             /\ out' = IF conn[tasks[t].sid] = "closed" THEN out
                       ELSE IF o = "ok"
                            THEN OutPlus(tasks[t].sid,
                                     RoomCreated(NextRoomId(store_rooms), tasks[t].content))
                            ELSE OutPlus(tasks[t].sid, ErrorEvent(MSG_CREATE_FAILED))]_vars

\* C12: a command of a connection without a session sends nothing to the
\* store, leaves the Membership Table alone and delivers one authentication
\* error, to the caller; a connect without a token that verifies saves no
\* session.
DispatchedBy(t, sid) ==
    \/ \E name \in RawTexts : CreateRoom(t, sid, name)
    \/ \E r \in RawRoomIds : JoinRoom(t, sid, r)
    \/ \E r \in RawRoomIds, c \in RawTexts : SendMessage(t, sid, r, c)
    \/ \E r \in RawRoomIds : RequestPastMessages(t, sid, r)
NoSessionNoEffect ==
    [][/\ \A t \in {u \in TaskIds : Free(u) /\ tasks'[u].pc # "free"} :
          \A sid \in {c \in Conns : session[c] = NoSub /\ CanSend(c)} :
             DispatchedBy(t, sid) =>
                /\ store_calls' = store_calls
                /\ room_members' = room_members
                /\ store_rooms' = store_rooms /\ store_messages' = store_messages
                /\ bots' = bots /\ parts' = parts
                /\ out' = OutPlus(sid, ErrorEvent(MSG_AUTH))
                /\ tasks'[t].pc = "done"
       /\ \A sid \in {c \in Conns : conn[c] = "new" /\ conn'[c] # "new"} :
             \A auth \in Auths :
                (Connect(sid, auth) /\ auth.token # "good") => session' = session]_vars
\* a refused connection was told that it is not authenticated
RefusedGotAuthError ==
    \E c \in Conns : conn[c] = "refused" /\ HasEvent(c, ErrorEvent(MSG_AUTH))

\* C13: when the loop of an auto-reply is over, the connections that were
\* members of the bot room when the reply was broadcast (and are still
\* connected) have received the reply, whether or not they were members when
\* the triggering message was sent, and no other connection has.
\* Refuted: a member joined in time misses the reply when the loop over the
\* live set ends early (see C2, C3).
ReplyReachesMembersAtBroadcast ==
    [][\A t \in TaskIds :
          FanoutOver(bots[t], bots'[t]) =>
             \A c \in Conns : conn[c] # "closed" =>
                (c \in bots[t].snap <=> Received(c, bots[t].saved.id) >= 1)]_vars

\* C14: when the oracle fails the reply is the fixed text; the reply is
\* stored under the bot identity with is_bot set and the stored row is what
\* the loop emits; a reply whose save failed is delivered to nobody; and no
\* step of the auto-reply task delivers an error event.
BotRow(tk) ==
    [id |-> Len(store_messages) + 1, room_id |-> tk.room_id, user_email |-> BOT_USER_EMAIL,
     content |-> tk.content, is_bot |-> TRUE]
AllMembersConnected(r) ==
    Members(room_members, r) # {} /\ \A m \in Members(room_members, r) : conn[m] # "closed"
ReplyFailurePolicy ==
    [][\A t \in TaskIds :
          /\ BotOracleReply(t, FALSE) =>
                bots'[t].content = FALLBACK_TEXT /\ bots'[t].pc = "save_message_db"
          /\ BotSaveReply(t, "ok") =>
                /\ store_messages' = Append(store_messages, BotRow(bots[t]))
                /\ \A c \in Conns :
                      out'[c] # out[c] => out'[c] = Append(out[c], NewMessage(BotRow(bots[t])))
                /\ AllMembersConnected(bots[t].room_id) => out' # out
          /\ \A o \in Outcomes \ {"ok"} :
                BotSaveReply(t, o) =>
                   out' = out /\ store_messages' = store_messages /\ bots'[t].pc = "done"
          /\ (bots'[t] # bots[t] /\ tasks' = tasks) =>
                \A c \in Conns :
                   Len(out'[c]) > Len(out[c]) => out'[c][Len(out'[c])].ev # "error"]_vars
\* the fixed text was delivered as a stored bot message
FallbackDelivered ==
    \E c \in Conns : \E i \in 1..Len(out[c]) :
       /\ out[c][i].ev = "new_message" /\ IsStoredRow(out[c][i].rec)
       /\ out[c][i].rec.is_bot /\ out[c][i].rec.user_email = BOT_USER_EMAIL
       /\ out[c][i].rec.content = FALLBACK_TEXT

\* C15: of two send_message commands for the same room, dispatched one after
\* the other (task ids follow the dispatch order) and both saved, no
\* connection receives the later message before the earlier one.  Stated
\* for the moments at which both handlers are still in their loops.
\* Refuted: the handlers run as independent tasks, and the one whose save is
\* answered first broadcasts first.
InLoop(tk) == tk.kind = "send_message" /\ tk.pc = "emit"
PerConnectionFifo ==
    \A t1, t2 \in TaskIds :
       (t1 < t2 /\ InLoop(tasks[t1]) /\ InLoop(tasks[t2])
          /\ tasks[t1].room_id = tasks[t2].room_id) =>
          \A c \in Conns : \A i, j \in 1..Len(out[c]) :
             (/\ out[c][i] = NewMessage(tasks[t1].saved)
              /\ out[c][j] = NewMessage(tasks[t2].saved)) => i < j

\* C16: when a broadcast loop ends and a connection that was a member at the
\* start of the loop is closed by then (the delivery to it failed), every
\* other member of the start that is still open has received the message,
\* and the handler or auto-reply task did not end with an exception.
\* Refuted: the disconnect of a member shrinks the set the loop walks, the
\* iterator raises, and the members not yet visited get nothing.
OthersServed(tk, tk2) ==
    (FanoutOver(tk, tk2) /\ \E c \in tk.snap : conn[c] = "closed") =>
       /\ tk2.res \notin {"RuntimeError", "TransportError", "HTTPStatusError"}
       /\ \A d \in tk.snap : conn[d] = "open" => Received(d, tk.saved.id) >= 1
DeliveryIsolation ==
    [][\A t \in TaskIds : /\ OthersServed(tasks[t], tasks'[t])
                          /\ OthersServed(bots[t], bots'[t])]_vars

\* C17: the session of a connection d is written only by the connect of d,
\* and the set of rooms d is a member of changes only in a join_room of d
\* that found its room or in the disconnect of d: no command and no
\* disconnect of another connection, whatever its outcome, touches them.
RoomsOf(rm, d) == {r \in DOMAIN rm : d \in rm[r]}
CrossConnectionIsolation ==
    [][\A d \in Conns :
          /\ session'[d] # session[d] => \E auth \in Auths : Connect(d, auth)
          /\ RoomsOf(room_members', d) # RoomsOf(room_members, d) =>
                \/ Disconnect(d)
                \/ \E t \in TaskIds : JoinRoomReply(t, "ok") /\ tasks[t].sid = d]_vars
\* c has left a room by its disconnect while d stayed a member of it
LeftBehind ==
    \E c, d \in Conns, r \in DOMAIN room_members :
       /\ c # d /\ conn[c] = "closed" /\ conn[d] = "open"
       /\ HasEvent(c, RoomJoined(r)) /\ gen[r] = 0
       /\ d \in room_members[r] /\ session[d] # NoSub

\* C18: a step that takes a connection out of one of its rooms takes it out
\* of all of them: between two steps of any handler, loop or task a
\* connection is never out of some of its rooms and still in others by a
\* disconnect that is under way.
LeaveIsAtomic ==
    [][\A c \in Conns :
          RoomsOf(room_members, c) \ RoomsOf(room_members', c) # {} =>
             RoomsOf(room_members', c) = {}]_vars
\* a connection that had joined two rooms is closed and in no room
LeftTwoRooms ==
    \E c \in Conns, r1, r2 \in store_rooms :
       /\ r1 # r2 /\ conn[c] = "closed"
       /\ HasEvent(c, RoomJoined(r1)) /\ HasEvent(c, RoomJoined(r2))
       /\ RoomsOf(room_members, c) = {}

\* C19: while the oracle call of an auto-reply task is outstanding, the
\* send_message handler that started the task has already finished its
\* broadcast loop and returned.
HandlerDoesNotAwaitOracle ==
    \A t \in TaskIds :
       bots[t].pc = "get_gemini_response" =>
          tasks[t].pc = "done" /\ tasks[t].res = "sent"
\* the user message is delivered and its handler is over, the oracle has
\* not answered yet
OracleOutstanding ==
    \E t \in TaskIds, c \in Conns :
       /\ bots[t].pc = "get_gemini_response" /\ tasks[t].pc = "done"
       /\ \E i \in 1..Len(out[c]) :
             /\ out[c][i].ev = "new_message"
             /\ out[c][i].rec.room_id = BOT_ROOM_ID /\ ~out[c][i].rec.is_bot

\* C20: every user message stored for the bot room has started exactly one
\* auto-reply task as soon as its handler is out of its broadcast loop, and
\* nothing else starts one: the number of auto-reply tasks started equals
\* the number of stored user messages of the bot room whose handler is not
\* in its loop any more.
\* Refuted: a loop that ends with RuntimeError skips the create_task, and the
\* stored message never gets a reply.
UserRowsOfBotRoom ==
    {i \in 1..Len(store_messages) :
        store_messages[i].room_id = BOT_ROOM_ID /\ ~store_messages[i].is_bot}
StillInLoop == {t \in TaskIds : InLoop(tasks[t]) /\ tasks[t].room_id = BOT_ROOM_ID}
RepliesStarted == {t \in TaskIds : bots[t].pc # "free"}
OneReplyPerStoredMessage ==
    Cardinality(RepliesStarted) + Cardinality(StillInLoop) = Cardinality(UserRowsOfBotRoom)

====
